---- MODULE Spec2Model ----
(***************************************************************************)
(* A model of eodhd_py: the Configuration with its lazily created shared   *)
(* session, the endpoint clients that capture that session, the EodhdApi   *)
(* facade with its endpoint cache, and the validators and endpoint         *)
(* methods that assemble a request.                                        *)
(*                                                                         *)
(* Python strings are sequences of one-character strings; objects are      *)
(* numbered in order of construction (a reference is the object's index).  *)
(***************************************************************************)
EXTENDS Naturals, Sequences, FiniteSets, TLC

VARIABLES
  configs,    \* EodhdApiConfig objects: [session, flag, key]
  sessions,   \* aiohttp.ClientSession objects: [closed, origin]
  endpoints,  \* BaseEodhdApi (sub)class instances: [cls, config, session]
  facades,    \* EodhdApi objects: [config, instances]
  ret,        \* what the facade accessor returned, if the last step was one
  requested,  \* whether a _make_request call has been started so far
  call,       \* the last validator / endpoint-method call and its outcome
  dicts,      \* the params mappings the caller owns and passes by reference
  inflight    \* the requests started so far, each with its position

lifeVars == <<configs, sessions, endpoints, facades, ret, requested>>
reqVars == <<dicts, inflight>>
vars == <<configs, sessions, endpoints, facades, ret, requested, call, dicts, inflight>>

----------------------------------------------------------------------------
(* Bounds of the model *)

\* Objects (configurations, sessions, endpoint clients, facades) constructed
\* in one run of the session lifecycle.
MaxObjects == 5
\* Longest symbol enumerated character by character, for the validators and
\* for the endpoint methods.
MaxSymLen == 3
MaxCallSymLen == 2

----------------------------------------------------------------------------
(* Strings *)

\* The string of n copies of character c ("A" * 49 in the tests).
Rep(c, n) == [i \in 1..n |-> c]

\* Python's None for an object reference (objects are numbered from 1).
None == 0

\* The api keys tried: the default, a 16-character key, and two that the
\* Field pattern rejects (the empty string and a short key).
KeyDemo == <<"d", "e", "m", "o">>
KeyLong == Rep("k", 16)
KeyShort == <<"k", "e", "y">>
ApiKeys == {KeyDemo, KeyLong, KeyShort, <<>>}
\* The keys tried when objects are constructed in the session lifecycle.
LifeKeys == {KeyDemo, KeyShort, <<>>}

Upper == {"A", "B", "K", "R", "S", "U", "Z"}
Lower == {"a", "d", "e", "k", "m", "o", "y", "z"}
Digit == {"0", "1", "2", "3", "4", "5", "6", "7", "8", "9"}

\* Field(pattern=r"^([A-Za-z0-9.]{16,32}|demo)$"): pydantic's regex engine
\* anchors $ at the very end of the string.
ApiKeyValid(k) ==
  \/ k = KeyDemo
  \/ /\ Len(k) >= 16
     /\ Len(k) <= 32
     /\ \A i \in 1..Len(k) : k[i] \in Upper \cup Lower \cup Digit \cup {"."}

----------------------------------------------------------------------------
(* Text: characters, Python's str methods and the re pattern of utils.py *)

\* Code points of the characters the model uses.
Ord(c) ==
  CASE c = "\n" -> 10 [] c = " " -> 32 [] c = "!" -> 33 [] c = "$" -> 36
    [] c = "+" -> 43 [] c = "-" -> 45 [] c = "." -> 46 [] c = "/" -> 47
    [] c = "0" -> 48 [] c = "1" -> 49 [] c = "5" -> 53 [] c = "9" -> 57
    [] c = "@" -> 64 [] c = "A" -> 65 [] c = "B" -> 66 [] c = "K" -> 75
    [] c = "L" -> 76 [] c = "P" -> 80 [] c = "R" -> 82 [] c = "S" -> 83
    [] c = "U" -> 85 [] c = "Z" -> 90 [] c = "[" -> 91 [] c = "^" -> 94
    [] c = "_" -> 95 [] c = "a" -> 97 [] c = "d" -> 100 [] c = "h" -> 104
    [] c = "m" -> 109 [] c = "w" -> 119 [] c = "x" -> 120 [] c = "z" -> 122
    [] c = "{" -> 123

\* str.count(ch)
Count(s, ch) == Cardinality({i \in 1..Len(s) : s[i] = ch})

\* str.replace(old, new): every occurrence of old becomes new.
ReplaceAll(s, old, new) == [i \in 1..Len(s) |-> IF s[i] = old THEN new ELSE s[i]]

\* str.replace(old, new, 1) for one-character old and new: the first
\* occurrence of old, if any, becomes new.
ReplaceFirst(s, old, new) ==
  IF \E i \in 1..Len(s) : s[i] = old
    THEN LET first == CHOOSE i \in 1..Len(s) :
                        s[i] = old /\ \A j \in 1..(i - 1) : s[j] # old
         IN  [s EXCEPT ![first] = new]
    ELSE s

\* The longest symbol the pattern admits: the {1,48} of utils.py.
MaxSymbolLen == 48

\* The character class [A-z0-9-$\.+] of utils.py: the range A-z spans code
\* points 65 to 122, the range 0-9 spans 48 to 57, and - $ . + are literals.
InSymbolClass(c) ==
  \/ Ord(c) >= Ord("A") /\ Ord(c) <= Ord("z")
  \/ Ord(c) >= Ord("0") /\ Ord(c) <= Ord("9")
  \/ c \in {"-", "$", ".", "+"}

\* ^[A-z0-9-$\.+]{1,48}$ on the whole of body.
SymbolBody(body) ==
  /\ Len(body) >= 1
  /\ Len(body) <= MaxSymbolLen
  /\ \A i \in 1..Len(body) : InSymbolClass(body[i])

\* regex.match(symbol) for re_compile(r"^[A-z0-9-$\.+]{1,48}$"): without
\* re.MULTILINE, $ matches at the end of the string and also just before a
\* newline that ends the string.
SymbolRegexMatch(symbol) ==
  \/ SymbolBody(symbol)
  \/ /\ Len(symbol) >= 1
     /\ symbol[Len(symbol)] = "\n"
     /\ SymbolBody(SubSeq(symbol, 1, Len(symbol) - 1))

\* What a call yields: a returned value or a raised exception.  The text of
\* an exception is msg followed by arg (an f-string's interpolated part).
Return(v) == [ok |-> TRUE, error |-> "", msg |-> "", arg |-> <<>>, value |-> v]
Raise(error, msg, arg) ==
  [ok |-> FALSE, error |-> error, msg |-> msg, arg |-> arg, value |-> <<>>]

----------------------------------------------------------------------------
(* Validators: utils.py *)

\* A normalization that takes two or more "." for a market symbol.
validate_normalize_symbol_any_dots(symbol) ==
  LET IS_MARKET == Count(symbol, ".") >= 2
  IN  IF ~SymbolRegexMatch(symbol)
        THEN Raise("ValueError", "Symbol is invalid: ", symbol)
        ELSE IF IS_MARKET
          THEN Return(ReplaceFirst(symbol, ".", "-"))
          ELSE Return(symbol)

validate_normalize_symbol(symbol) ==
  LET IS_MARKET == Count(symbol, ".") = 2
  IN  IF ~SymbolRegexMatch(symbol)
        THEN Raise("ValueError", "Symbol is invalid: ", symbol)
        ELSE IF IS_MARKET
          THEN Return(ReplaceFirst(symbol, ".", "-"))
          ELSE Return(symbol)

validate_order(order) ==
  IF order \notin {<<"a">>, <<"d">>}
    THEN Raise("ValueError", "Order must be 'a' (ascending) or 'd' (descending)", <<>>)
    ELSE Return(TRUE)

validate_period(period) ==
  IF period \notin {<<"d">>, <<"w">>, <<"m">>}
    THEN Raise("ValueError",
               "Period must be 'd' (daily), 'w' (weekly), or 'm' (monthly)", <<>>)
    ELSE Return(TRUE)

\* An interval validator that ignores the kind and checks the EOD set.
validate_interval_one_kind(value, data_type) ==
  IF value \notin {<<"d">>, <<"w">>, <<"m">>}
    THEN Raise("ValueError",
               "Interval must be 'd' (daily), 'w' (weekly), or 'm' (monthly)", <<>>)
    ELSE Return(TRUE)

\* validate_interval(value, data_type="intraday"): base.py imports it from
\* utils.py, whose text does not hold it; it is taken from the specification
\* (4.1 Validators, 8 Testable properties).
validate_interval(value, data_type) ==
  IF data_type = "eod"
    THEN IF value \notin {<<"d">>, <<"w">>, <<"m">>}
           THEN Raise("ValueError",
                      "Interval must be 'd' (daily), 'w' (weekly), or 'm' (monthly)", <<>>)
           ELSE Return(TRUE)
    ELSE IF value \notin {<<"1", "m">>, <<"5", "m">>, <<"1", "h">>}
           THEN Raise("ValueError", "Interval must be '1m', '5m', or '1h'", <<>>)
           ELSE Return(TRUE)

----------------------------------------------------------------------------
(* Dates: datetime.strftime("%Y-%m-%d") *)

\* A datetime is <<year, month, day>> (the time of day is not formatted);
\* NoDate is the None of from_date / to_date.
NoDate == <<>>

DigitChars == <<"0", "1", "2", "3", "4", "5", "6", "7", "8", "9">>

RECURSIVE Decimal(_)
Decimal(n) ==
  IF n < 10 THEN <<DigitChars[n + 1]>>
            ELSE Decimal(n \div 10) \o <<DigitChars[(n % 10) + 1]>>

RECURSIVE ZeroPad(_, _)
ZeroPad(s, width) == IF Len(s) >= width THEN s ELSE ZeroPad(<<"0">> \o s, width)

\* date.strftime("%Y-%m-%d").  %m and %d are zero-padded to two digits.  %Y
\* is handed to the C library: glibc prints the year without padding (year
\* 999 gives "999"), other C libraries pad it to four digits; padYear says
\* which of the two the platform does.
strftime(date, padYear) ==
  (IF padYear THEN ZeroPad(Decimal(date[1]), 4) ELSE Decimal(date[1]))
    \o <<"-">> \o ZeroPad(Decimal(date[2]), 2)
    \o <<"-">> \o ZeroPad(Decimal(date[3]), 2)

----------------------------------------------------------------------------
(* Endpoint methods: base.py *)

\* An argument the caller leaves out, so that the default of the signature
\* applies.
Omitted == <<"(omitted)">>
Default(arg, default) == IF arg = Omitted THEN default ELSE arg

\* params[key] = value on a dict
DictSet(d, key, value) == (key :> value) @@ d

\* The JSON the request executor returns.
Response == <<"json">>

\* await self._make_request(endpoint, params=params), seen from an endpoint
\* method: the executor is called once with these arguments and the method
\* returns what it returns.  ran lists the validators called, in order.
Executed(endpoint, params, ran) ==
  [out |-> Return(Response), executor |-> <<[endpoint |-> endpoint, params |-> params]>>,
   validators |-> ran]

\* An exception raised by the last validator of ran, before the executor is
\* reached.
Failed(out, ran) == [out |-> out, executor |-> <<>>, validators |-> ran]

\* EodHistoricalApi.get_eod_data
get_eod_data(symbol, interval_arg, order_arg, from_date, to_date, padYear) ==
  LET interval == Default(interval_arg, <<"d">>)
      order == Default(order_arg, <<"a">>)
      period == interval
      params0 == ("period" :> period) @@ ("order" :> order)
      sym == validate_normalize_symbol(symbol)
      params1 == IF from_date # NoDate
                   THEN DictSet(params0, "from", strftime(from_date, padYear))
                   ELSE params0
      params2 == IF to_date # NoDate
                   THEN DictSet(params1, "to", strftime(to_date, padYear))
                   ELSE params1
  IN  IF ~sym.ok THEN Failed(sym, <<"validate_normalize_symbol">>)
      ELSE IF ~validate_order(order).ok
        THEN Failed(validate_order(order), <<"validate_normalize_symbol", "validate_order">>)
      ELSE IF ~validate_interval(period, "eod").ok
        THEN Failed(validate_interval(period, "eod"),
                    <<"validate_normalize_symbol", "validate_order", "validate_interval">>)
      ELSE Executed(<<"e", "o", "d", "/">> \o sym.value, params2,
                    <<"validate_normalize_symbol", "validate_order", "validate_interval">>)

\* An intraday method that sends split-dt whatever the flag says.
get_intraday_data_always_split(symbol, interval_arg, from_date, to_date, split_dt, padYear) ==
  LET interval == Default(interval_arg, <<"5", "m">>)
      params0 == ("interval" :> interval)
      sym == validate_normalize_symbol(symbol)
      params1 == IF from_date # NoDate
                   THEN DictSet(params0, "from", strftime(from_date, padYear))
                   ELSE params0
      params2 == IF to_date # NoDate
                   THEN DictSet(params1, "to", strftime(to_date, padYear))
                   ELSE params1
      params3 == DictSet(params2, "split-dt", <<"1">>)
  IN  IF ~sym.ok THEN Failed(sym, <<"validate_normalize_symbol">>)
      ELSE IF ~validate_interval(interval, "intraday").ok
        THEN Failed(validate_interval(interval, "intraday"),
                    <<"validate_normalize_symbol", "validate_interval">>)
      ELSE Executed(<<"i", "n", "t", "r", "a", "d", "a", "y", "/">> \o sym.value, params3,
                    <<"validate_normalize_symbol", "validate_interval">>)

\* IntradayHistoricalApi.get_intraday_data
get_intraday_data(symbol, interval_arg, from_date, to_date, split_dt, padYear) ==
  LET interval == Default(interval_arg, <<"5", "m">>)
      params0 == ("interval" :> interval)
      sym == validate_normalize_symbol(symbol)
      params1 == IF from_date # NoDate
                   THEN DictSet(params0, "from", strftime(from_date, padYear))
                   ELSE params0
      params2 == IF to_date # NoDate
                   THEN DictSet(params1, "to", strftime(to_date, padYear))
                   ELSE params1
      params3 == IF split_dt THEN DictSet(params2, "split-dt", <<"1">>) ELSE params2
  IN  IF ~sym.ok THEN Failed(sym, <<"validate_normalize_symbol">>)
      ELSE IF ~validate_interval(interval, "intraday").ok
        THEN Failed(validate_interval(interval, "intraday"),
                    <<"validate_normalize_symbol", "validate_interval">>)
      ELSE Executed(<<"i", "n", "t", "r", "a", "d", "a", "y", "/">> \o sym.value, params3,
                    <<"validate_normalize_symbol", "validate_interval">>)

\* UserApi.get_user_info: no params are passed.
get_user_info == Executed(<<"u", "s", "e", "r">>, <<>>, <<>>)

----------------------------------------------------------------------------
(* Endpoint methods: the classes of eod_historical.py and of               *)
(* intraday_historical.py, which define the two methods a second time      *)

\* An EOD method that validates the interval before the order.
eod_historical_get_eod_data_interval_first(symbol, interval_arg, order_arg, from_date, to_date, padYear) ==
  LET interval == Default(interval_arg, <<"d">>)
      order == Default(order_arg, <<"a">>)
      period == interval
      params0 == ("period" :> period) @@ ("order" :> order)
      sym == validate_normalize_symbol(symbol)
      params1 == IF from_date # NoDate
                   THEN DictSet(params0, "from", strftime(from_date, padYear))
                   ELSE params0
      params2 == IF to_date # NoDate
                   THEN DictSet(params1, "to", strftime(to_date, padYear))
                   ELSE params1
  IN  IF ~sym.ok THEN Failed(sym, <<"validate_normalize_symbol">>)
      ELSE IF ~validate_interval(period, "eod").ok
        THEN Failed(validate_interval(period, "eod"),
                    <<"validate_normalize_symbol", "validate_interval">>)
      ELSE IF ~validate_order(order).ok
        THEN Failed(validate_order(order),
                    <<"validate_normalize_symbol", "validate_interval", "validate_order">>)
      ELSE Executed(<<"e", "o", "d", "/">> \o sym.value, params2,
                    <<"validate_normalize_symbol", "validate_interval", "validate_order">>)

\* eod_historical.EodHistoricalApi.get_eod_data
eod_historical_get_eod_data(symbol, interval_arg, order_arg, from_date, to_date, padYear) ==
  LET interval == Default(interval_arg, <<"d">>)
      order == Default(order_arg, <<"a">>)
      period == interval
      params0 == ("period" :> period) @@ ("order" :> order)
      sym == validate_normalize_symbol(symbol)
      params1 == IF from_date # NoDate
                   THEN DictSet(params0, "from", strftime(from_date, padYear))
                   ELSE params0
      params2 == IF to_date # NoDate
                   THEN DictSet(params1, "to", strftime(to_date, padYear))
                   ELSE params1
  IN  IF ~sym.ok THEN Failed(sym, <<"validate_normalize_symbol">>)
      ELSE IF ~validate_order(order).ok
        THEN Failed(validate_order(order), <<"validate_normalize_symbol", "validate_order">>)
      ELSE IF ~validate_interval(period, "eod").ok
        THEN Failed(validate_interval(period, "eod"),
                    <<"validate_normalize_symbol", "validate_order", "validate_interval">>)
      ELSE Executed(<<"e", "o", "d", "/">> \o sym.value, params2,
                    <<"validate_normalize_symbol", "validate_order", "validate_interval">>)

\* intraday_historical.IntradayHistoricalApi.get_intraday_data
intraday_historical_get_intraday_data(symbol, interval_arg, from_date, to_date, split_dt, padYear) ==
  LET interval == Default(interval_arg, <<"5", "m">>)
      params0 == ("interval" :> interval)
      sym == validate_normalize_symbol(symbol)
      params1 == IF from_date # NoDate
                   THEN DictSet(params0, "from", strftime(from_date, padYear))
                   ELSE params0
      params2 == IF to_date # NoDate
                   THEN DictSet(params1, "to", strftime(to_date, padYear))
                   ELSE params1
      params3 == IF split_dt THEN DictSet(params2, "split-dt", <<"1">>) ELSE params2
  IN  IF ~sym.ok THEN Failed(sym, <<"validate_normalize_symbol">>)
      ELSE IF ~validate_interval(interval, "intraday").ok
        THEN Failed(validate_interval(interval, "intraday"),
                    <<"validate_normalize_symbol", "validate_interval">>)
      ELSE Executed(<<"i", "n", "t", "r", "a", "d", "a", "y", "/">> \o sym.value, params3,
                    <<"validate_normalize_symbol", "validate_interval">>)

----------------------------------------------------------------------------
(* Objects *)

EndpointClasses == {"EodHistoricalApi", "IntradayHistoricalApi", "UserApi"}

ConfigIds == 1..Len(configs)
SessionIds == 1..Len(sessions)
EndpointIds == 1..Len(endpoints)
FacadeIds == 1..Len(facades)

\* The objects constructed so far, and whether k more fit the bound.
HeapSize == Len(configs) + Len(sessions) + Len(endpoints) + Len(facades)
Room(k) == HeapSize + k <= MaxObjects

\* EodhdApiConfig(api_key=key, close_session_on_aexit=flag): _session is None.
NewConfigRec(key, flag) == [session |-> None, flag |-> flag, key |-> key]

\* aiohttp.ClientSession(): a new, open session.
NewSessionRec(origin) == [closed |-> FALSE, origin |-> origin]

\* A getter that also opens a new session when the present one is closed.
SessionGetReopen(cfgs, sess, c) ==
  IF cfgs[c].session = None \/ sess[cfgs[c].session].closed
    THEN [configs  |-> [cfgs EXCEPT ![c].session = Len(sess) + 1],
          sessions |-> Append(sess, NewSessionRec("lib")),
          value    |-> Len(sess) + 1]
    ELSE [configs |-> cfgs, sessions |-> sess, value |-> cfgs[c].session]

\* EodhdApiConfig.session (getter): the Configuration's session, created when
\* _session is None.  Yields the configurations, the sessions and the value.
SessionGet(cfgs, sess, c) ==
  IF cfgs[c].session = None
    THEN [configs  |-> [cfgs EXCEPT ![c].session = Len(sess) + 1],
          sessions |-> Append(sess, NewSessionRec("lib")),
          value    |-> Len(sess) + 1]
    ELSE [configs |-> cfgs, sessions |-> sess, value |-> cfgs[c].session]

\* The number of objects the getter constructs.
GetCost(c) == IF configs[c].session = None THEN 1 ELSE 0

\* BaseEodhdApi.__init__ with a config: keeps the config and the session the
\* config's getter returns at this moment.
InitEndpoint(cfgs, sess, eps, cls, c) ==
  LET g == SessionGet(cfgs, sess, c)
  IN  [configs   |-> g.configs,
       sessions  |-> g.sessions,
       endpoints |-> Append(eps, [cls |-> cls, config |-> c, session |-> g.value]),
       value     |-> Len(eps) + 1]

\* No accessor has returned in the step just taken.
NoRet == [fac |-> None, cls |-> "", ep |-> None, fresh |-> FALSE]
NoCall == [fn |-> "none"]

Init ==
  /\ configs = <<>>
  /\ sessions = <<>>
  /\ endpoints = <<>>
  /\ facades = <<>>
  /\ ret = NoRet
  /\ requested = FALSE
  /\ call = NoCall
  /\ dicts = <<>>
  /\ inflight = <<>>

----------------------------------------------------------------------------
(* Operations on the Configuration *)

\* EodhdApiConfig(api_key=key, close_session_on_aexit=flag); a key the pattern
\* rejects raises ValidationError and constructs nothing.
NewConfig(key, flag) ==
  /\ IF ApiKeyValid(key)
       THEN /\ Room(1)
            /\ configs' = Append(configs, NewConfigRec(key, flag))
       ELSE UNCHANGED configs
  /\ ret' = NoRet
  /\ UNCHANGED <<sessions, endpoints, facades, requested, call, reqVars>>

\* config.session = value, with value a session the caller constructed.
SetSession(c) ==
  /\ Room(1)
  /\ sessions' = Append(sessions, NewSessionRec("user"))
  /\ configs' = [configs EXCEPT ![c].session = Len(sessions) + 1]
  /\ ret' = NoRet
  /\ UNCHANGED <<endpoints, facades, requested, call, reqVars>>

\* await config.session.close(): the manual close the class docstring asks
\* for when close_session_on_aexit is False.
ManualClose(c) ==
  /\ Room(GetCost(c))
  /\ LET g == SessionGet(configs, sessions, c)
     IN  /\ configs' = g.configs
         /\ sessions' = [g.sessions EXCEPT ![g.value].closed = TRUE]
  /\ ret' = NoRet
  /\ UNCHANGED <<endpoints, facades, requested, call, reqVars>>

----------------------------------------------------------------------------
(* Operations on an endpoint client *)

\* BaseEodhdApi.__init__(config, api_key), c = None standing for no config.
BaseEodhdApi_init(cls, c, key) ==
  /\ IF c = None /\ key = <<>>
       THEN \* ValueError("Either config or api_key must be provided")
            UNCHANGED <<configs, sessions, endpoints>>
       ELSE IF c # None
         THEN /\ Room(1 + GetCost(c))
              /\ LET r == InitEndpoint(configs, sessions, endpoints, cls, c)
                 IN  /\ configs' = r.configs
                     /\ sessions' = r.sessions
                     /\ endpoints' = r.endpoints
         ELSE IF ApiKeyValid(key)
           THEN /\ Room(3)
                /\ LET cfgs == Append(configs, NewConfigRec(key, TRUE))
                       r == InitEndpoint(cfgs, sessions, endpoints, cls, Len(cfgs))
                   IN  /\ configs' = r.configs
                       /\ sessions' = r.sessions
                       /\ endpoints' = r.endpoints
           ELSE UNCHANGED <<configs, sessions, endpoints>>
  /\ ret' = NoRet
  /\ UNCHANGED <<facades, requested, call, reqVars>>

\* BaseEodhdApi.close
BaseEodhdApi_close(e) ==
  /\ LET c == endpoints[e].config
         s == endpoints[e].session
     IN  IF configs[c].flag /\ ~sessions[s].closed
           THEN sessions' = [sessions EXCEPT ![s].closed = TRUE]
           ELSE UNCHANGED sessions
  /\ ret' = NoRet
  /\ UNCHANGED <<configs, endpoints, facades, requested, call, reqVars>>

\* BaseEodhdApi.__aexit__
BaseEodhdApi_aexit(e) == BaseEodhdApi_close(e)

\* BaseEodhdApi._make_request, as far as the shared state goes: it reads the
\* config's api key and issues the GET through the endpoint's own session.
MakeRequestStart(e) ==
  /\ requested' = TRUE
  /\ ret' = NoRet
  /\ UNCHANGED <<configs, sessions, endpoints, facades, call, reqVars>>

----------------------------------------------------------------------------
(* Operations on the facade *)

\* A facade constructor that opens the session at once (for a given config).
EodhdApi_init_eager(c, key) ==
  /\ c # None
  /\ Room(1 + GetCost(c))
  /\ LET g == SessionGet(configs, sessions, c)
     IN  /\ configs' = g.configs
         /\ sessions' = g.sessions
  /\ facades' = Append(facades, [config |-> c,
                                 instances |-> [k \in EndpointClasses |-> None]])
  /\ ret' = NoRet
  /\ UNCHANGED <<endpoints, requested, call, reqVars>>

\* EodhdApi.__init__(config, api_key): no session is touched.
EodhdApi_init(c, key) ==
  /\ LET fresh == [config |-> Len(configs) + 1,
                   instances |-> [k \in EndpointClasses |-> None]]
     IN  IF c # None
           THEN /\ Room(1)
                /\ facades' = Append(facades, [fresh EXCEPT !.config = c])
                /\ UNCHANGED configs
           ELSE IF ApiKeyValid(key)
             THEN /\ Room(2)
                  /\ configs' = Append(configs, NewConfigRec(key, TRUE))
                  /\ facades' = Append(facades, fresh)
             ELSE UNCHANGED <<configs, facades>>
  /\ ret' = NoRet
  /\ UNCHANGED <<sessions, endpoints, requested, call, reqVars>>

\* EodhdApi.close
EodhdApi_close(f) ==
  /\ LET c == facades[f].config
     IN  IF configs[c].flag
           THEN /\ Room(GetCost(c))
                /\ LET g == SessionGet(configs, sessions, c)
                   IN  /\ configs' = g.configs
                       /\ sessions' = [g.sessions EXCEPT ![g.value].closed = TRUE]
           ELSE UNCHANGED <<configs, sessions>>
  /\ ret' = NoRet
  /\ UNCHANGED <<endpoints, facades, requested, call, reqVars>>

\* EodhdApi.__aexit__
EodhdApi_aexit(f) == EodhdApi_close(f)

\* An accessor that constructs a client on every access and overwrites the
\* cached one.
get_endpoint_uncached(f, cls) ==
  /\ Room(1 + GetCost(facades[f].config))
  /\ LET r == InitEndpoint(configs, sessions, endpoints, cls, facades[f].config)
     IN  /\ configs' = r.configs
         /\ sessions' = r.sessions
         /\ endpoints' = r.endpoints
         /\ facades' = [facades EXCEPT ![f].instances[cls] = r.value]
         /\ ret' = [fac |-> f, cls |-> cls, ep |-> r.value, fresh |-> TRUE]
  /\ UNCHANGED <<requested, call, reqVars>>

\* EodhdApi._get_endpoint(endpoint_class), reached through the properties
\* eod_historical_api, intraday_historical_api and user_api.
get_endpoint(f, cls) ==
  /\ IF facades[f].instances[cls] = None
       THEN /\ Room(1 + GetCost(facades[f].config))
            /\ LET r == InitEndpoint(configs, sessions, endpoints, cls, facades[f].config)
               IN  /\ configs' = r.configs
                   /\ sessions' = r.sessions
                   /\ endpoints' = r.endpoints
                   /\ facades' = [facades EXCEPT ![f].instances[cls] = r.value]
                   /\ ret' = [fac |-> f, cls |-> cls, ep |-> r.value, fresh |-> TRUE]
       ELSE /\ ret' = [fac |-> f, cls |-> cls, ep |-> facades[f].instances[cls],
                       fresh |-> FALSE]
            /\ UNCHANGED <<configs, sessions, endpoints, facades>>
  /\ UNCHANGED <<requested, call, reqVars>>

----------------------------------------------------------------------------
(* The session lifecycle *)

Next ==
  \/ \E key \in LifeKeys, flag \in BOOLEAN : NewConfig(key, flag)
  \/ \E c \in ConfigIds : SetSession(c)
  \/ \E c \in ConfigIds \cup {None}, key \in LifeKeys :
        BaseEodhdApi_init("BaseEodhdApi", c, key)
  \/ \E e \in EndpointIds : BaseEodhdApi_close(e)
  \/ \E e \in EndpointIds : BaseEodhdApi_aexit(e)
  \/ \E e \in EndpointIds : MakeRequestStart(e)
  \/ \E c \in ConfigIds \cup {None}, key \in LifeKeys : EodhdApi_init(c, key)
  \/ \E f \in FacadeIds : EodhdApi_close(f)
  \/ \E f \in FacadeIds : EodhdApi_aexit(f)
  \/ \E f \in FacadeIds, cls \in EndpointClasses : get_endpoint(f, cls)
  \/ \E c \in ConfigIds : ManualClose(c)

Spec == Init /\ [][Next]_vars

----------------------------------------------------------------------------
(* Properties of the session lifecycle (checked under Spec) *)

\* C1: every endpoint client holds the session of its Configuration, so that
\* all endpoint clients sharing a Configuration hold one and the same session
\* (and a close through one of them closes it for all).
C1_SharedSession ==
  \A e \in EndpointIds : endpoints[e].session = configs[endpoints[e].config].session

\* What C2 says a close()/__aexit__ step on an object of Configuration c does:
\* with the flag set, the session every endpoint client of c holds is closed
\* afterwards; with the flag clear, no session changes.
CloseEffect(c) ==
  IF configs[c].flag
    THEN \A e \in EndpointIds :
           endpoints[e].config = c => sessions'[endpoints[e].session].closed
    ELSE sessions' = sessions

\* C2: a close or scope exit of a facade or of an endpoint client closes the
\* shared session if and only if close_session_on_aexit is set.
C2_CloseIffOwner ==
  [][ /\ \A f \in FacadeIds :
           (EodhdApi_close(f) \/ EodhdApi_aexit(f)) => CloseEffect(facades[f].config)
      /\ \A e \in EndpointIds :
           (BaseEodhdApi_close(e) \/ BaseEodhdApi_aexit(e))
             => CloseEffect(endpoints[e].config) ]_vars

\* A session of Configuration c (its own, or one an endpoint client of c
\* holds) has been closed.
ClosedBefore(c) ==
  \/ configs[c].session # None /\ sessions[configs[c].session].closed
  \/ \E e \in EndpointIds : endpoints[e].config = c /\ sessions[endpoints[e].session].closed

\* A close()/__aexit__ step on a facade or an endpoint client of c.
CloseCallOn(c) ==
  \/ \E f \in FacadeIds :
       facades[f].config = c /\ (EodhdApi_close(f) \/ EodhdApi_aexit(f))
  \/ \E e \in EndpointIds :
       endpoints[e].config = c /\ (BaseEodhdApi_close(e) \/ BaseEodhdApi_aexit(e))

\* C3: close is idempotent: once the session of a Configuration has been
\* closed, every further close on its facade or on one of its endpoint
\* clients, in any order, closes nothing more and leaves the state unchanged.
C3_CloseIdempotent ==
  [][ \A c \in ConfigIds :
        (ClosedBefore(c) /\ CloseCallOn(c))
          => UNCHANGED <<configs, sessions, endpoints, facades>> ]_vars

C20_ClosedSessionKept ==
  [][ \A c \in ConfigIds :
        (configs[c].session # None /\ sessions[configs[c].session].closed) =>
          /\ sessions'[configs[c].session].closed
          /\ configs'[c].session # configs[c].session => SetSession(c)
          /\ ~SetSession(c) =>
               /\ \A s \in 1..Len(sessions') : s \notin SessionIds =>
                    \A d \in 1..Len(configs') : configs'[d].session = s => d # c
               /\ \A e \in 1..Len(endpoints') :
                    (e \notin EndpointIds /\ endpoints'[e].config = c)
                      => endpoints'[e].session = configs[c].session
    ]_vars

\* C20's case: an accessor has just constructed an endpoint client on a
\* Configuration whose session was closed before, and the client holds that
\* closed session, which is still the Configuration's.
C20_Witness ==
  /\ ret.ep # None
  /\ ret.fresh
  /\ sessions[endpoints[ret.ep].session].closed
  /\ configs[endpoints[ret.ep].config].session = endpoints[ret.ep].session

----------------------------------------------------------------------------
(* Calls of the validators and of the endpoint methods: one call, applied  *)
(* to arguments drawn from the sets below, and its outcome                *)

Strings(chars, n) == UNION {[1..k -> chars] : k \in 0..n}

CoreChars == {"A", ".", "-", "_", " ", "\n"}
AllChars == CoreChars \cup {"a", "z", "Z", "0", "9", "$", "+", "@", "!", "[", "^", "{", "/"}

\* Symbols of the test suite, and one with three dots.
Fixtures ==
  { <<"A", "A", "P", "L">>,
    <<"B", "R", "K", ".", "B", ".", "U", "S">>,
    <<"B", "R", "K", "-", "A">>,
    <<"A", ".", "B", ".", "A", ".", "B">> }

\* Symbols around the length limit of the pattern.
LongSymbols ==
  {Rep("A", n) : n \in (MaxSymbolLen - 1)..(MaxSymbolLen + 1)}
    \cup {Append(Rep("A", n), "\n") : n \in (MaxSymbolLen - 1)..(MaxSymbolLen + 1)}
    \cup {<<".">> \o Rep("A", n) \o <<".">> : n \in (MaxSymbolLen - 3)..(MaxSymbolLen - 1)}

SymbolInputs ==
  Strings(CoreChars, MaxSymLen)
    \cup {<<c>> : c \in AllChars}
    \cup {<<"A", c>> : c \in AllChars}
    \cup {<<c, "A">> : c \in AllChars}
    \cup Fixtures \cup LongSymbols

CallSymbols ==
  Strings(CoreChars, MaxCallSymLen) \cup Fixtures \cup {Rep("A", MaxSymbolLen + 1)}

IntervalInputs ==
  { <<"d">>, <<"w">>, <<"m">>, <<"1", "m">>, <<"5", "m">>, <<"1", "h">>,
    <<"x">>, <<"D">>, <<"1", "M">>, <<>> }
OrderInputs == {<<"a">>, <<"d">>, <<"x">>, <<"A">>, <<>>}
DateInputs == {NoDate, <<2020, 1, 1>>, <<2023, 12, 31>>, <<999, 1, 2>>}

\* Each action makes one call, from the state in which none has been made.
\* A symbol that is returned is normalized a second time (again); the
\* methods defined twice are called in both classes (other).
CallValidateNormalizeSymbol ==
  /\ call = NoCall
  /\ \E symbol \in SymbolInputs :
       LET out == validate_normalize_symbol(symbol)
       IN  call' = [fn |-> "validate_normalize_symbol", args |-> [symbol |-> symbol],
                    out |-> out, executor |-> <<>>,
                    again |-> IF out.ok THEN validate_normalize_symbol(out.value) ELSE out]
  /\ UNCHANGED <<lifeVars, reqVars>>

CallValidateOrder ==
  /\ call = NoCall
  /\ \E order \in OrderInputs :
       call' = [fn |-> "validate_order", args |-> [order |-> order],
                out |-> validate_order(order), executor |-> <<>>]
  /\ UNCHANGED <<lifeVars, reqVars>>

CallValidatePeriod ==
  /\ call = NoCall
  /\ \E period \in IntervalInputs :
       call' = [fn |-> "validate_period", args |-> [period |-> period],
                out |-> validate_period(period), executor |-> <<>>]
  /\ UNCHANGED <<lifeVars, reqVars>>

\* validate_interval(value) and validate_interval(value, data_type=...)
CallValidateInterval ==
  /\ call = NoCall
  /\ \E value \in IntervalInputs, data_type \in {"eod", "intraday", "(omitted)"} :
       call' = [fn |-> "validate_interval",
                args |-> [value |-> value, data_type |-> data_type],
                out |-> validate_interval(value,
                          IF data_type = "(omitted)" THEN "intraday" ELSE data_type),
                executor |-> <<>>]
  /\ UNCHANGED <<lifeVars, reqVars>>

CallGetEodData ==
  /\ call = NoCall
  /\ \E symbol \in CallSymbols, interval \in IntervalInputs \cup {Omitted},
        order \in OrderInputs \cup {Omitted}, from_date \in DateInputs,
        to_date \in DateInputs, padYear \in BOOLEAN :
       LET r == get_eod_data(symbol, interval, order, from_date, to_date, padYear)
           o == eod_historical_get_eod_data(symbol, interval, order, from_date, to_date,
                                            padYear)
       IN  call' = [fn |-> "get_eod_data", other |-> o,
                    args |-> [symbol |-> symbol, interval |-> interval, order |-> order,
                              from_date |-> from_date, to_date |-> to_date],
                    out |-> r.out, executor |-> r.executor,
                    validators |-> r.validators]
  /\ UNCHANGED <<lifeVars, reqVars>>

CallGetIntradayData ==
  /\ call = NoCall
  /\ \E symbol \in CallSymbols, interval \in IntervalInputs \cup {Omitted},
        from_date \in DateInputs, to_date \in DateInputs,
        split_dt \in BOOLEAN, padYear \in BOOLEAN :
       LET r == get_intraday_data(symbol, interval, from_date, to_date, split_dt, padYear)
           o == intraday_historical_get_intraday_data(symbol, interval, from_date, to_date,
                                                      split_dt, padYear)
       IN  call' = [fn |-> "get_intraday_data", other |-> o,
                    args |-> [symbol |-> symbol, interval |-> interval,
                              from_date |-> from_date, to_date |-> to_date,
                              split_dt |-> split_dt],
                    out |-> r.out, executor |-> r.executor,
                    validators |-> r.validators]
  /\ UNCHANGED <<lifeVars, reqVars>>

CallGetUserInfo ==
  /\ call = NoCall
  /\ call' = [fn |-> "get_user_info", args |-> <<>>,
              out |-> get_user_info.out, executor |-> get_user_info.executor]
  /\ UNCHANGED <<lifeVars, reqVars>>

NextCall ==
  \/ CallValidateNormalizeSymbol
  \/ CallValidateOrder
  \/ CallValidatePeriod
  \/ CallValidateInterval
  \/ CallGetEodData
  \/ CallGetIntradayData
  \/ CallGetUserInfo

SpecCall == Init /\ [][NextCall]_vars

----------------------------------------------------------------------------
(* Properties of the validators and endpoint methods (checked under        *)
(* SpecCall)                                                               *)

\* The characters the documented symbol pattern admits: A-Z, a-z, 0-9 and
\* - $ . +
DocumentedSymbolChar(c) ==
  \/ Ord(c) >= Ord("A") /\ Ord(c) <= Ord("Z")
  \/ Ord(c) >= Ord("a") /\ Ord(c) <= Ord("z")
  \/ Ord(c) >= Ord("0") /\ Ord(c) <= Ord("9")
  \/ c \in {"-", "$", ".", "+"}

\* 1 to 48 documented characters.
WellFormedSymbol(s) ==
  /\ Len(s) >= 1
  /\ Len(s) <= MaxSymbolLen
  /\ \A i \in 1..Len(s) : DocumentedSymbolChar(s[i])

\* v is s with its first "." turned into "-" if s has exactly two ".", and
\* is s otherwise.
NormalizedAs(s, v) ==
  LET dots == {i \in 1..Len(s) : s[i] = "."}
  IN  IF Cardinality(dots) = 2
        THEN /\ Len(v) = Len(s)
             /\ \A i \in 1..Len(s) :
                  v[i] = IF i \in dots /\ (\A j \in dots : i <= j) THEN "-" ELSE s[i]
        ELSE v = s

\* C6: validate_normalize_symbol succeeds exactly for the symbols of 1 to 48
\* characters among A-Z a-z 0-9 - $ . + and raises ValueError "Symbol is
\* invalid" for every other string.
C6_SymbolAcceptedIffWellFormed ==
  call.fn = "validate_normalize_symbol" =>
    /\ call.out.ok <=> WellFormedSymbol(call.args.symbol)
    /\ ~call.out.ok =>
         call.out.error = "ValueError" /\ call.out.msg = "Symbol is invalid: "

\* C7: for every symbol it accepts, validate_normalize_symbol returns the
\* symbol with its first "." replaced by "-" when it has exactly two ".", and
\* the symbol unchanged when it has none, one, or three and more.
C7_NormalizeFirstDot ==
  (call.fn = "validate_normalize_symbol" /\ call.out.ok) =>
    NormalizedAs(call.args.symbol, call.out.value)

\* C7's cases: BRK.B.US has become BRK-B.US; a symbol with three dots has
\* been returned as it is.
C7_Witness ==
  /\ call.fn = "validate_normalize_symbol"
  /\ call.out.ok
  /\ call.args.symbol = <<"B", "R", "K", ".", "B", ".", "U", "S">>
  /\ call.out.value = <<"B", "R", "K", "-", "B", ".", "U", "S">>

\* C8: validate_interval accepts exactly d, w, m for the kind "eod" and
\* exactly 1m, 5m, 1h for the intraday kind, which is also the kind when
\* data_type is left out; every other string raises ValueError with the
\* message naming the allowed set of the kind.
C8_IntervalValidation ==
  call.fn = "validate_interval" =>
    LET eod == call.args.data_type = "eod"
        allowed == IF eod THEN {<<"d">>, <<"w">>, <<"m">>}
                          ELSE {<<"1", "m">>, <<"5", "m">>, <<"1", "h">>}
    IN  /\ call.out.ok <=> call.args.value \in allowed
        /\ call.out.ok => call.out.value = TRUE
        /\ ~call.out.ok =>
             /\ call.out.error = "ValueError"
             /\ call.out.msg =
                  IF eod THEN "Interval must be 'd' (daily), 'w' (weekly), or 'm' (monthly)"
                         ELSE "Interval must be '1m', '5m', or '1h'"

\* C8's case: an intraday interval has been refused for the kind "eod".
C8_Witness ==
  /\ call.fn = "validate_interval"
  /\ call.args.data_type = "eod"
  /\ call.args.value = <<"1", "m">>
  /\ ~call.out.ok

\* The number a decimal digit stands for.
DigitValue(c) == CHOOSE n \in 0..9 : DigitChars[n + 1] = c

\* text is date written YYYY-MM-DD.
IsoDate(text, date) ==
  /\ Len(text) = 10
  /\ text[5] = "-"
  /\ text[8] = "-"
  /\ \A i \in {1, 2, 3, 4, 6, 7, 9, 10} : text[i] \in Digit
  /\ date[1] = 1000 * DigitValue(text[1]) + 100 * DigitValue(text[2])
                 + 10 * DigitValue(text[3]) + DigitValue(text[4])
  /\ date[2] = 10 * DigitValue(text[6]) + DigitValue(text[7])
  /\ date[3] = 10 * DigitValue(text[9]) + DigitValue(text[10])

\* The keys of the optional dates that are given.
DateKeys(from_date, to_date) ==
  (IF from_date # NoDate THEN {"from"} ELSE {})
    \cup (IF to_date # NoDate THEN {"to"} ELSE {})

\* C9: for valid arguments get_eod_data calls the request executor exactly
\* once, with path "eod/" + normalized symbol and with parameters exactly
\* period (the interval, "d" by default), order ("a" by default), "from"
\* written YYYY-MM-DD iff from_date is given and "to" written YYYY-MM-DD iff
\* to_date is given.
C9_EodRequest ==
  LET a == call.args
      interval == IF a.interval = Omitted THEN <<"d">> ELSE a.interval
      order == IF a.order = Omitted THEN <<"a">> ELSE a.order
  IN  ( /\ call.fn = "get_eod_data"
        /\ WellFormedSymbol(a.symbol)
        /\ interval \in {<<"d">>, <<"w">>, <<"m">>}
        /\ order \in {<<"a">>, <<"d">>} ) =>
        /\ call.out.ok
        /\ Len(call.executor) = 1
        /\ LET req == call.executor[1]
           IN  /\ Len(req.endpoint) > 4
               /\ SubSeq(req.endpoint, 1, 4) = <<"e", "o", "d", "/">>
               /\ NormalizedAs(a.symbol, SubSeq(req.endpoint, 5, Len(req.endpoint)))
               /\ DOMAIN req.params = {"period", "order"} \cup DateKeys(a.from_date, a.to_date)
               /\ req.params["period"] = interval
               /\ req.params["order"] = order
               /\ a.from_date # NoDate => IsoDate(req.params["from"], a.from_date)
               /\ a.to_date # NoDate => IsoDate(req.params["to"], a.to_date)

\* C10: for valid arguments get_intraday_data calls the request executor
\* exactly once, with path "intraday/" + normalized symbol and with
\* parameters exactly interval ("5m" by default), "from" iff from_date is
\* given, "to" iff to_date is given, and "split-dt" = "1" iff split_dt holds.
C10_IntradayRequest ==
  LET a == call.args
      interval == IF a.interval = Omitted THEN <<"5", "m">> ELSE a.interval
  IN  ( /\ call.fn = "get_intraday_data"
        /\ WellFormedSymbol(a.symbol)
        /\ interval \in {<<"1", "m">>, <<"5", "m">>, <<"1", "h">>} ) =>
        /\ call.out.ok
        /\ Len(call.executor) = 1
        /\ LET req == call.executor[1]
           IN  /\ Len(req.endpoint) > 9
               /\ SubSeq(req.endpoint, 1, 9) = <<"i", "n", "t", "r", "a", "d", "a", "y", "/">>
               /\ NormalizedAs(a.symbol, SubSeq(req.endpoint, 10, Len(req.endpoint)))
               /\ DOMAIN req.params =
                    {"interval"} \cup DateKeys(a.from_date, a.to_date)
                      \cup (IF a.split_dt THEN {"split-dt"} ELSE {})
               /\ req.params["interval"] = interval
               /\ a.split_dt => req.params["split-dt"] = <<"1">>

\* C10's cases: BRK.B.US asked with a to_date and the split flag; and a call
\* with the default interval and nothing else.
C10_Witness ==
  /\ call.fn = "get_intraday_data"
  /\ call.out.ok
  /\ call.args.symbol = <<"B", "R", "K", ".", "B", ".", "U", "S">>
  /\ call.args.interval = Omitted
  /\ call.args.split_dt
  /\ call.args.from_date = NoDate
  /\ call.args.to_date = <<2023, 12, 31>>
  /\ DOMAIN call.executor[1].params = {"interval", "to", "split-dt"}

----------------------------------------------------------------------------
(* Further properties of the endpoint methods (checked under SpecCall) *)

\* The interval and the order of a call, with the defaults of the method fn.
EffectiveInterval(a, fn) ==
  IF a.interval = Omitted
    THEN (IF fn = "get_eod_data" THEN <<"d">> ELSE <<"5", "m">>)
    ELSE a.interval
EffectiveOrder(a) == IF a.order = Omitted THEN <<"a">> ELSE a.order

\* The documented allowed sets.
EodIntervals == {<<"d">>, <<"w">>, <<"m">>}
IntradayIntervals == {<<"1", "m">>, <<"5", "m">>, <<"1", "h">>}
Orders == {<<"a">>, <<"d">>}

\* The errors of the three validators.
IsSymbolError(out) ==
  ~out.ok /\ out.error = "ValueError" /\ out.msg = "Symbol is invalid: "
IsOrderError(out) ==
  /\ ~out.ok
  /\ out.error = "ValueError"
  /\ out.msg = "Order must be 'a' (ascending) or 'd' (descending)"
IsIntervalError(out, fn) ==
  /\ ~out.ok
  /\ out.error = "ValueError"
  /\ out.msg = IF fn = "get_eod_data"
                 THEN "Interval must be 'd' (daily), 'w' (weekly), or 'm' (monthly)"
                 ELSE "Interval must be '1m', '5m', or '1h'"

\* C13: a call of get_eod_data or get_intraday_data with an invalid symbol,
\* order or interval fails with ValueError, and the request executor is not
\* invoked on that call (so no GET reaches the session).
C13_InvalidArgumentNoRequest ==
  /\ ( /\ call.fn = "get_eod_data"
       /\ \/ ~WellFormedSymbol(call.args.symbol)
          \/ EffectiveOrder(call.args) \notin Orders
          \/ EffectiveInterval(call.args, call.fn) \notin EodIntervals ) =>
         /\ ~call.out.ok
         /\ call.out.error = "ValueError"
         /\ call.executor = <<>>
  /\ ( /\ call.fn = "get_intraday_data"
       /\ \/ ~WellFormedSymbol(call.args.symbol)
          \/ EffectiveInterval(call.args, call.fn) \notin IntradayIntervals ) =>
         /\ ~call.out.ok
         /\ call.out.error = "ValueError"
         /\ call.executor = <<>>

\* C14: get_eod_data validates symbol, then order, then interval, and
\* get_intraday_data symbol, then interval: the error raised is that of the
\* first invalid argument in this order, and no validator runs after one
\* that failed.
C14_ValidationOrder ==
  /\ call.fn = "get_eod_data" =>
       IF ~WellFormedSymbol(call.args.symbol)
         THEN /\ IsSymbolError(call.out)
              /\ call.validators = <<"validate_normalize_symbol">>
       ELSE IF EffectiveOrder(call.args) \notin Orders
         THEN /\ IsOrderError(call.out)
              /\ call.validators = <<"validate_normalize_symbol", "validate_order">>
       ELSE /\ call.validators =
                 <<"validate_normalize_symbol", "validate_order", "validate_interval">>
            /\ EffectiveInterval(call.args, call.fn) \notin EodIntervals
                 => IsIntervalError(call.out, call.fn)
  /\ call.fn = "get_intraday_data" =>
       IF ~WellFormedSymbol(call.args.symbol)
         THEN /\ IsSymbolError(call.out)
              /\ call.validators = <<"validate_normalize_symbol">>
       ELSE /\ call.validators = <<"validate_normalize_symbol", "validate_interval">>
            /\ EffectiveInterval(call.args, call.fn) \notin IntradayIntervals
                 => IsIntervalError(call.out, call.fn)

\* C18: normalization is closed over the valid symbols and idempotent: for
\* a valid symbol s, validate_normalize_symbol(s) is a valid symbol, and
\* normalizing it once more returns it unchanged.
C18_NormalizeIdempotent ==
  (call.fn = "validate_normalize_symbol" /\ WellFormedSymbol(call.args.symbol)) =>
    /\ call.out.ok
    /\ WellFormedSymbol(call.out.value)
    /\ call.again.ok
    /\ call.again.value = call.out.value

\* C18's cases: a symbol with two dots, which the first normalization
\* changes and the second leaves alone; and one with three dots.
C18_Witness ==
  /\ call.fn = "validate_normalize_symbol"
  /\ call.args.symbol \in { <<"B", "R", "K", ".", "B", ".", "U", "S">>,
                            <<"A", ".", "B", ".", "A", ".", "B">> }
  /\ call.out.ok
  /\ call.again = call.out

\* C19: the methods defined twice agree: for every input, get_eod_data of
\* eod_historical.py and of base.py, and get_intraday_data of
\* intraday_historical.py and of base.py, run the same validators in the same
\* order and call the executor with the same path and parameters, or fail
\* with the same error.
C19_DuplicateClassesAgree ==
  call.fn \in {"get_eod_data", "get_intraday_data"} =>
    /\ call.other.out = call.out
    /\ call.other.executor = call.executor
    /\ call.other.validators = call.validators

\* C19's case: an order and an interval that are both invalid, where the
\* order of the validators decides the error, and both classes raise the
\* order's.
C19_Witness ==
  /\ call.fn = "get_eod_data"
  /\ call.args.symbol = <<"A", "A", "P", "L">>
  /\ call.args.order = <<"x">>
  /\ call.args.interval = <<"x">>
  /\ IsOrderError(call.out)
  /\ IsOrderError(call.other.out)

----------------------------------------------------------------------------
(* The request executor: BaseEodhdApi._make_request, from its call to its  *)
(* return, with the two awaits (the response, the body) as separate steps  *)

\* Requests started in one run.
MaxRequests == 2

\* self.BASE_URL
BASE_URL ==
  <<"h", "t", "t", "p", "s", ":", "/", "/", "e", "o", "d", "h", "d", ".", "c", "o", "m",
    "/", "a", "p", "i">>

\* The value of fmt.
FmtJson == <<"j", "s", "o", "n">>

\* str.lstrip(ch), str.rstrip(ch) and str.strip(ch) for one character ch.
RECURSIVE LStrip(_, _)
LStrip(s, ch) == IF Len(s) > 0 /\ s[1] = ch THEN LStrip(Tail(s), ch) ELSE s

RECURSIVE RStrip(_, _)
RStrip(s, ch) ==
  IF Len(s) > 0 /\ s[Len(s)] = ch THEN RStrip(SubSeq(s, 1, Len(s) - 1), ch) ELSE s

\* A strip that leaves the trailing characters.
StripLeading(s, ch) == LStrip(s, ch)

Strip(s, ch) == RStrip(LStrip(s, ch), ch)

\* The params argument: None, or a mapping (the empty mapping is <<>>).
NoParams == [none |-> TRUE, map |-> <<>>]
Params(d) == [none |-> FALSE, map |-> d]

\* Python's truth value of params: None and the empty dict are false.
Truthy(params) == ~params.none /\ DOMAIN params.map # {}

\* A preparation that writes the two fixed keys into the caller's mapping.
RequestParamsInPlace(params, api_key) ==
  LET own == IF Truthy(params) THEN params.map ELSE <<>>
      query == DictSet(DictSet(own, "api_token", api_key), "fmt", FmtJson)
  IN  [query |-> query, caller |-> IF Truthy(params) THEN Params(query) ELSE params]

\* A preparation that keeps an api_token or fmt the caller supplied.
RequestParamsKeepCaller(params, api_key) ==
  LET copy == IF Truthy(params) THEN params.map ELSE <<>>
  IN  [query |-> copy @@ ("api_token" :> api_key) @@ ("fmt" :> FmtJson),
       caller |-> params]

\* request_params = params.copy() if params else {}, then the two fixed keys.
\* Yields the query and the caller's mapping as it is afterwards.
RequestParams(params, api_key) ==
  LET copy == IF Truthy(params) THEN params.map ELSE <<>>
      query == DictSet(DictSet(copy, "api_token", api_key), "fmt", FmtJson)
  IN  [query |-> query, caller |-> params]

\* response.raise_for_status() of aiohttp raises ClientResponseError when the
\* response is not ok, and ok is "status below 400".
raise_for_status(status) == status >= 400

\* The outcome of a request that has not returned yet.
NoOut == Raise("(pending)", "", <<>>)

\* A request: the call (ep, fn, args), whether it reached the executor, what
\* the executor was given (endpoint, passed, dict), its position pc, the GETs
\* it handed to the session, what the network answered (net, status, body),
\* whether response.json() was called (parsed) and what the call yielded.

\* An endpoint method whose validation failed: no executor call.
Rejected(e, fn, args, out) ==
  [ep |-> e, fn |-> fn, args |-> args, executed |-> FALSE, endpoint |-> <<>>,
   passed |-> NoParams, dict |-> None, pc |-> "done", gets |-> <<>>,
   net |-> "none", status |-> 0, body |-> "unread", parsed |-> FALSE, out |-> out]

\* _make_request(endpoint, params) on endpoint client e up to its first
\* await: the query, the url, and the GET handed to the client's session.
\* dict is the caller's mapping passed by reference, if there is one.
SendRequest(e, fn, args, endpoint, params, dict) ==
  LET prep == RequestParams(params, configs[endpoints[e].config].key)
      url == BASE_URL \o <<"/">> \o Strip(endpoint, "/")
  IN  [rec |-> [ep |-> e, fn |-> fn, args |-> args, executed |-> TRUE,
                endpoint |-> endpoint, passed |-> params, dict |-> dict, pc |-> "sent",
                gets |-> <<[method |-> "GET", url |-> url, params |-> prep.query,
                            session |-> endpoints[e].session]>>,
                net |-> "pending", status |-> 0, body |-> "unread",
                parsed |-> FALSE, out |-> NoOut],
       caller |-> prep.caller]

\* session.request raises (a connection-level failure): the exception leaves
\* _make_request.
OnTransportFailure(r) ==
  [r EXCEPT !.pc = "done", !.out = Raise("ClientConnectionError", "", <<>>)]

\* A handler that sends the request again after a failing status.
OnResponseRetry(r, status) ==
  IF raise_for_status(status)
    THEN [r EXCEPT !.gets = Append(@, @[1])]
    ELSE [r EXCEPT !.pc = "reading", !.parsed = TRUE]

\* The response has arrived: raise_for_status(), then response.json() is
\* awaited.
OnResponse(r, status) ==
  IF raise_for_status(status)
    THEN [r EXCEPT !.pc = "done", !.out = Raise("ClientResponseError", "", <<status>>)]
    ELSE [r EXCEPT !.pc = "reading", !.parsed = TRUE]

\* response.json() returns the parsed body or raises on a body that is not
\* JSON.
OnBody(r, decodable) ==
  IF decodable
    THEN [r EXCEPT !.pc = "done", !.out = Return(Response)]
    ELSE [r EXCEPT !.pc = "done", !.out = Raise("JSONDecodeError", "", <<>>)]

\* The mappings the caller owns: empty, one key, and one that already holds
\* api_token and fmt.
CallerDicts ==
  << <<>>,
     ("period" :> <<"d">>),
     ("api_token" :> <<"x">>) @@ ("fmt" :> <<"x", "m", "l">>) @@ ("filter" :> <<"G">>) >>

\* The direct calls of _make_request tried: endpoint client, path, mapping.
DirectCalls ==
  << [ep |-> 1, endpoint |-> <<"e", "o", "d", "/", "A", "M", "D">>, dict |-> None],
     [ep |-> 2, endpoint |-> <<"/", "e", "o", "d", "/", "A", "M", "D", "/">>, dict |-> 1],
     [ep |-> 3, endpoint |-> <<"/", "/", "a", "/", "/", "b", "/">>, dict |-> 2],
     [ep |-> 1, endpoint |-> <<"/">>, dict |-> 3] >>

\* The endpoint-method calls tried.
EodCalls ==
  << [symbol |-> <<"B", "R", "K", ".", "B", ".", "U", "S">>, interval |-> <<"w">>,
      order |-> Omitted, from_date |-> <<2020, 1, 1>>, to_date |-> NoDate],
     [symbol |-> <<"A", " ", "B">>, interval |-> Omitted,
      order |-> Omitted, from_date |-> NoDate, to_date |-> NoDate] >>
IntradayCalls ==
  << [symbol |-> <<"A", "A", "P", "L">>, interval |-> Omitted,
      from_date |-> NoDate, to_date |-> <<2023, 12, 31>>, split_dt |-> TRUE],
     [symbol |-> <<"A", "A", "P", "L">>, interval |-> <<"d">>,
      from_date |-> NoDate, to_date |-> NoDate, split_dt |-> FALSE] >>

\* The response statuses tried.
Statuses == {101, 200, 304, 404, 500}

RequestIds == 1..Len(inflight)

\* The state after api = EodhdApi(api_key="demo") and a first access of each
\* of its three accessors, with the caller's mappings at hand.
InitReq ==
  LET c0 == <<NewConfigRec(KeyDemo, TRUE)>>
      r1 == InitEndpoint(c0, <<>>, <<>>, "EodHistoricalApi", 1)
      r2 == InitEndpoint(r1.configs, r1.sessions, r1.endpoints, "IntradayHistoricalApi", 1)
      r3 == InitEndpoint(r2.configs, r2.sessions, r2.endpoints, "UserApi", 1)
  IN  /\ configs = r3.configs
      /\ sessions = r3.sessions
      /\ endpoints = r3.endpoints
      /\ facades = <<[config |-> 1,
                      instances |-> [k \in EndpointClasses |->
                        CHOOSE e \in 1..3 : r3.endpoints[e].cls = k]]>>
      /\ ret = NoRet
      /\ requested = FALSE
      /\ call = NoCall
      /\ dicts = CallerDicts
      /\ inflight = <<>>

\* A call of an endpoint method whose outcome up to the executor is r.
StartEndpointCall(e, fn, args, r, params) ==
  /\ Len(inflight) < MaxRequests
  /\ IF r.executor = <<>>
       THEN /\ inflight' = Append(inflight, Rejected(e, fn, args, r.out))
            /\ UNCHANGED requested
       ELSE /\ inflight' = Append(inflight,
                 SendRequest(e, fn, args, r.executor[1].endpoint, params, None).rec)
            /\ requested' = TRUE
  /\ UNCHANGED <<configs, sessions, endpoints, facades, ret, call, dicts>>

\* api.eod_historical_api.get_eod_data(...)
StartGetEodData(e, k) ==
  /\ endpoints[e].cls = "EodHistoricalApi"
  /\ \E padYear \in BOOLEAN :
       LET a == EodCalls[k]
           r == get_eod_data(a.symbol, a.interval, a.order, a.from_date, a.to_date, padYear)
       IN  StartEndpointCall(e, "get_eod_data", a, r,
             IF r.executor = <<>> THEN NoParams ELSE Params(r.executor[1].params))

\* api.intraday_historical_api.get_intraday_data(...)
StartGetIntradayData(e, k) ==
  /\ endpoints[e].cls = "IntradayHistoricalApi"
  /\ \E padYear \in BOOLEAN :
       LET a == IntradayCalls[k]
           r == get_intraday_data(a.symbol, a.interval, a.from_date, a.to_date,
                                  a.split_dt, padYear)
       IN  StartEndpointCall(e, "get_intraday_data", a, r,
             IF r.executor = <<>> THEN NoParams ELSE Params(r.executor[1].params))

\* api.user_api.get_user_info(): _make_request("user"), params left out.
StartGetUserInfo(e) ==
  /\ endpoints[e].cls = "UserApi"
  /\ StartEndpointCall(e, "get_user_info", <<>>, get_user_info, NoParams)

\* client._make_request(endpoint, params) with a mapping of the caller.
StartMakeRequest(k) ==
  /\ Len(inflight) < MaxRequests
  /\ LET d == DirectCalls[k]
         params == IF d.dict = None THEN NoParams ELSE Params(dicts[d.dict])
         s == SendRequest(d.ep, "_make_request", d, d.endpoint, params, d.dict)
     IN  /\ inflight' = Append(inflight, s.rec)
         /\ dicts' = IF d.dict = None THEN dicts
                                      ELSE [dicts EXCEPT ![d.dict] = s.caller.map]
  /\ requested' = TRUE
  /\ UNCHANGED <<configs, sessions, endpoints, facades, ret, call>>

\* The GET of request i fails at the connection.
TransportFailure(i) ==
  /\ inflight[i].pc = "sent"
  /\ inflight' = [inflight EXCEPT ![i] = OnTransportFailure([@ EXCEPT !.net = "transport"])]
  /\ UNCHANGED <<lifeVars, call, dicts>>

\* The response of request i arrives with a status.
ReceiveResponse(i, status) ==
  /\ inflight[i].pc = "sent"
  /\ inflight' = [inflight EXCEPT ![i] =
                     OnResponse([@ EXCEPT !.net = "response", !.status = status], status)]
  /\ UNCHANGED <<lifeVars, call, dicts>>

\* The body of request i has been read.
ReadBody(i, decodable) ==
  /\ inflight[i].pc = "reading"
  /\ inflight' = [inflight EXCEPT ![i] =
                     OnBody([@ EXCEPT !.body = IF decodable THEN "json" ELSE "garbage"],
                            decodable)]
  /\ UNCHANGED <<lifeVars, call, dicts>>

NextReq ==
  \/ \E e \in EndpointIds, k \in DOMAIN EodCalls : StartGetEodData(e, k)
  \/ \E e \in EndpointIds, k \in DOMAIN IntradayCalls : StartGetIntradayData(e, k)
  \/ \E e \in EndpointIds : StartGetUserInfo(e)
  \/ \E k \in DOMAIN DirectCalls : StartMakeRequest(k)
  \/ \E i \in RequestIds : TransportFailure(i)
  \/ \E i \in RequestIds, status \in Statuses : ReceiveResponse(i, status)
  \/ \E i \in RequestIds, decodable \in BOOLEAN : ReadBody(i, decodable)

SpecReq == InitReq /\ [][NextReq]_vars

----------------------------------------------------------------------------
(* Properties of the request executor (checked under SpecReq) *)

\* The keys _make_request sets itself.
FixedKeys == {"api_token", "fmt"}

\* The keys of the mapping a request's executor was given (none for None).
GivenKeys(r) == IF r.passed.none THEN {} ELSE DOMAIN r.passed.map

\* C11: for every path and every params mapping (None and the empty one
\* included) the query of the GET holds api_token = the Configuration's api
\* key and fmt = "json", also when the caller supplied keys of those names,
\* every other key of the caller with its value, and nothing else: its size
\* is the number of the caller's other keys plus two.
C11_QueryParams ==
  \A i \in RequestIds :
    inflight[i].executed =>
      LET r == inflight[i]
          query == r.gets[1].params
          own == GivenKeys(r) \ FixedKeys
      IN  /\ DOMAIN query = own \cup FixedKeys
          /\ query["api_token"] = configs[endpoints[r.ep].config].key
          /\ query["fmt"] = FmtJson
          /\ \A k \in own : query[k] = r.passed.map[k]
          /\ Cardinality(DOMAIN query) = Cardinality(own) + 2

\* C11's cases: a request whose caller supplied api_token and fmt himself,
\* next to one made with params = None.
C11_Witness ==
  \E i, j \in RequestIds :
    /\ inflight[i].executed
    /\ inflight[i].dict = 3
    /\ "api_token" \in GivenKeys(inflight[i])
    /\ inflight[i].gets[1].params["api_token"] = KeyDemo
    /\ inflight[j].executed
    /\ inflight[j].passed.none

\* C12: a response whose status is not 2xx (1xx, 3xx, 4xx or 5xx) makes
\* _make_request fail with the request-failed error, and its body is never
\* parsed or returned.
C12_NonSuccessFails ==
  \A i \in RequestIds :
    LET r == inflight[i]
    IN  (r.net = "response" /\ ~(r.status >= 200 /\ r.status <= 299)) =>
          /\ r.pc = "done"
          /\ ~r.parsed
          /\ ~r.out.ok
          /\ r.out.error = "ClientResponseError"

\* C15: every call of the executor hands exactly one GET to the session,
\* whatever follows: a connection failure, a status the response raises for,
\* or a body that is not JSON sends no second request, and the call ends
\* with that error and never with a value; until the call ends nothing has
\* been returned.
C15_SingleGetNoRetry ==
  \A i \in RequestIds :
    LET r == inflight[i]
    IN  /\ r.executed =>
             /\ Len(r.gets) = 1
             /\ r.gets[1].method = "GET"
             /\ r.pc # "done" => r.out = NoOut
             /\ r.net = "transport" =>
                  r.pc = "done" /\ r.out = Raise("ClientConnectionError", "", <<>>)
             /\ (r.net = "response" /\ r.status >= 400) =>
                  r.pc = "done" /\ r.out = Raise("ClientResponseError", "", <<r.status>>)
             /\ r.body = "garbage" =>
                  r.pc = "done" /\ r.out = Raise("JSONDecodeError", "", <<>>)
             /\ r.out.ok => r.net = "response" /\ r.status < 400 /\ r.body = "json"
        /\ ~r.executed => r.gets = <<>>

\* C15's cases: one request ended by a failing status and another by a
\* connection failure, each with its single GET.
C15_Witness ==
  \E i, j \in RequestIds :
    /\ inflight[i].pc = "done"
    /\ inflight[i].status = 500
    /\ ~inflight[i].out.ok
    /\ Len(inflight[i].gets) = 1
    /\ inflight[j].pc = "done"
    /\ inflight[j].net = "transport"
    /\ Len(inflight[j].gets) = 1

\* p is s without a run of leading and a run of trailing "/": what is cut
\* is "/" only, and what is left neither starts nor ends with "/".
StrippedOf(s, p) ==
  \E a, b \in 0..Len(s) :
    /\ a + b <= Len(s)
    /\ p = SubSeq(s, a + 1, Len(s) - b)
    /\ \A j \in 1..a : s[j] = "/"
    /\ \A j \in (Len(s) - b + 1)..Len(s) : s[j] = "/"
    /\ p # <<>> => p[1] # "/" /\ p[Len(p)] # "/"

\* C16: the URL requested is "https://eodhd.com/api/" followed by the path
\* without its leading and trailing "/"; the "/" inside the path are kept.
C16_UrlFromStrippedPath ==
  \A i \in RequestIds :
    inflight[i].executed =>
      LET r == inflight[i]
          url == r.gets[1].url
          n == Len(BASE_URL) + 1
      IN  /\ Len(url) >= n
          /\ SubSeq(url, 1, n) = BASE_URL \o <<"/">>
          /\ StrippedOf(r.endpoint, SubSeq(url, n + 1, Len(url)))

\* C16's cases: "/eod/AMD/" and "eod/AMD" requested with one and the same
\* URL, which keeps the inner "/".
C16_Witness ==
  \E i, j \in RequestIds :
    /\ inflight[i].endpoint = <<"/", "e", "o", "d", "/", "A", "M", "D", "/">>
    /\ inflight[j].endpoint = <<"e", "o", "d", "/", "A", "M", "D">>
    /\ inflight[i].gets[1].url = inflight[j].gets[1].url
    /\ inflight[i].gets[1].url = BASE_URL \o <<"/", "e", "o", "d", "/", "A", "M", "D">>

\* C17: no step of a request (its start, the arrival of its response, the
\* reading of its body), however the steps of concurrent requests interleave,
\* changes a Configuration, an endpoint client, the facade's cache or a
\* mapping of the caller; a query once issued is not changed by any later
\* step, and apart from the two fixed keys it holds the parameters of its
\* own call and no others.
C17_RequestsKeepSharedState ==
  [][ /\ configs' = configs
      /\ endpoints' = endpoints
      /\ facades' = facades
      /\ dicts' = dicts
      /\ \A i \in RequestIds :
           inflight[i].executed => inflight'[i].gets[1] = inflight[i].gets[1]
      /\ \A i \in 1..Len(inflight') :
           inflight'[i].executed =>
             LET r == inflight'[i]
                 query == r.gets[1].params
                 own == GivenKeys(r) \ FixedKeys
             IN  /\ DOMAIN query \ FixedKeys = own
                 /\ \A k \in own : query[k] = r.passed.map[k]
    ]_vars

\* C17's case: two requests in flight at once that were given the same
\* mapping of the caller, which is as it was.
C17_Witness ==
  /\ Len(inflight) = 2
  /\ inflight[1].pc = "sent"
  /\ inflight[2].pc = "reading"
  /\ inflight[1].dict = 2
  /\ inflight[2].dict = 2
  /\ dicts = CallerDicts

====
